---- MODULE Spec2Model ----
(***************************************************************************)
(* Model of src/main.py: class TimeWeightedReturns.  One run of main() is  *)
(* a state machine whose steps are the six methods main() calls in order.  *)
(*                                                                         *)
(* Python strings are sequences of character codes ("#" = 35, "0".."9" =   *)
(* 48..57) compared lexicographically, as Python compares str.  Optional   *)
(* values (None, a missing dict key, an omitted keyword argument) are      *)
(* sequences of length 0 or 1.  Decimal quotients are exact rationals in   *)
(* lowest terms, [num, den] with den > 0.                                  *)
(***************************************************************************)
EXTENDS Integers, Sequences, FiniteSets, TLC

VARIABLES
    EVENTS,          \* items of the Events table (line 22)
    BALANCES_TABLE,  \* items of the Balances table (line 23)
    TMR_TABLE,       \* items put in the TimeWeightedReturns table (line 24)
    name,            \* self.name
    start,           \* self.start: <<>> while the attribute is not set, else <<str>>
    end,             \* self.end
    sort_start,      \* self.sort_start
    sort_end,        \* self.sort_end
    balances,        \* self.balances
    periods,         \* self.periods
    pnls,            \* self.pnls
    queries,         \* the table.query calls made so far, in order
    pc,              \* the method of main() that runs next, or "done"
    error            \* the exception that ended the run, or "none"

vars == <<EVENTS, BALANCES_TABLE, TMR_TABLE, name, start, end, sort_start,
          sort_end, balances, periods, pnls, queries, pc, error>>

(***************************************************************************)
(* Bounds of the model.                                                    *)
(***************************************************************************)
MaxTime == 4        \* timestamps are the instants 0..MaxTime
MaxSnapshots == 3   \* snapshots of the account in the Balances table
MaxMarkers == 2     \* epoch markers in the Events table
MaxEpoch == 10      \* epoch numbers of markers are in 1..MaxEpoch

EPOCH_N == 5

(***************************************************************************)
(* Strings.                                                                *)
(***************************************************************************)
Hash == 35
Zero == 48

RECURSIVE Str(_)
\* str(n) for an integer n >= 0: its decimal digits.
Str(n) == IF n < 10 THEN <<Zero + n>> ELSE Append(Str(n \div 10), Zero + (n % 10))

\* An instant as a fixed-width sortable timestamp string (two digits here,
\* "YYYY-MM-DD HH:MM:SS" in the tables).
Timestamp(t) == <<Zero + (t \div 10), Zero + (t % 10)>>

\* Python's a < b on str.
StrLess(a, b) ==
    \E i \in 1..(Len(b)) :
        /\ \A j \in 1..(i - 1) : j <= Len(a) /\ a[j] = b[j]
        /\ \/ i = Len(a) + 1
           \/ i <= Len(a) /\ a[i] < b[i]

StrLeq(a, b) == a = b \/ StrLess(a, b)

\* Python's max(list of str), list not empty.
StrMax(S) == CHOOSE x \in S : \A y \in S : StrLeq(y, x)

\* Python's min(list of str), list not empty.
StrMin(S) == CHOOSE x \in S : \A y \in S : StrLeq(x, y)

\* "0" * k + s; "0" * k is "" for k <= 0.
ZeroPad(s) == [i \in 1..(EPOCH_N - Len(s)) |-> Zero] \o s

\* f"{a}#{b}"
JoinHash(a, b) == a \o <<Hash>> \o b

\* s.split("#")[0]
SplitFirst(s) ==
    IF \E i \in 1..Len(s) : s[i] = Hash
    THEN SubSeq(s, 1, (CHOOSE i \in 1..Len(s) :
                          s[i] = Hash /\ \A j \in 1..(i - 1) : s[j] # Hash) - 1)
    ELSE s

\* s.split("#")[-1]
SplitLast(s) ==
    IF \E i \in 1..Len(s) : s[i] = Hash
    THEN SubSeq(s, (CHOOSE i \in 1..Len(s) :
                       s[i] = Hash /\ \A j \in (i + 1)..Len(s) : s[j] # Hash) + 1, Len(s))
    ELSE s

(***************************************************************************)
(* Optional values and decimals.                                           *)
(***************************************************************************)
None == <<>>
Some(v) == <<v>>

\* dict.get(key, default) on an optional entry
Get(opt, default) == IF opt = None THEN default ELSE opt[1]

Abs(n) == IF n < 0 THEN -n ELSE n

RECURSIVE Gcd(_, _)
Gcd(a, b) == IF b = 0 THEN a ELSE Gcd(b, a % b)

\* n / d for d # 0, as a rational in lowest terms with a positive denominator.
Divide(n, d) ==
    LET g == Gcd(Abs(n), Abs(d))
        s == IF d < 0 THEN -1 ELSE 1
    IN [num |-> (s * n) \div g, den |-> (s * d) \div g]

(***************************************************************************)
(* The tables.  An item's partition key is field pk and its sort key field *)
(* sk: "event" and "timestamp" in Events, "name" and "epoch#timestamp" in  *)
(* Balances (the ExpressionAttributeNames of lines 63 and 104).            *)
(***************************************************************************)

\* table.query(**query_kwargs).get("Items", []): the items of the partition
\* whose sort key meets the key condition, in sort-key order (descending when
\* ScanIndexForward is False), at most Limit of them.
RECURSIVE Sorted(_, _)
Sorted(items, forward) ==
    IF items = {} THEN <<>>
    ELSE LET x == CHOOSE i \in items :
                      \A j \in items : IF forward THEN StrLeq(i.sk, j.sk)
                                                  ELSE StrLeq(j.sk, i.sk)
         IN <<x>> \o Sorted(items \ {x}, forward)

\* KeyCondition with the condition of line 118 written "<=".
KeyCondition_BeforeInclusive(item, kce, eav) ==
    /\ item.pk = eav.pk
    /\ CASE kce = "#pk = :pk" -> TRUE
         [] kce = "#pk = :pk AND #sk BETWEEN :start AND :end" ->
                StrLeq(eav.start, item.sk) /\ StrLeq(item.sk, eav.end)
         [] kce = "#pk = :pk AND #sk < :sk" -> StrLeq(item.sk, eav.sk)

KeyCondition(item, kce, eav) ==
    /\ item.pk = eav.pk
    /\ CASE kce = "#pk = :pk" -> TRUE
         [] kce = "#pk = :pk AND #sk BETWEEN :start AND :end" ->
                StrLeq(eav.start, item.sk) /\ StrLeq(item.sk, eav.end)
         [] kce = "#pk = :pk AND #sk < :sk" -> StrLess(item.sk, eav.sk)

\* query_dynamodb without lines 208-209: ScanIndexForward is never passed.
query_dynamodb_Forward(table, kce, eav, limit, sif) ==
    LET all == Sorted({i \in table : KeyCondition(i, kce, eav)}, TRUE)
    IN IF limit = None THEN all
       ELSE SubSeq(all, 1, IF Len(all) < limit[1] THEN Len(all) ELSE limit[1])

query_dynamodb(table, kce, eav, limit, sif) ==
    LET all == Sorted({i \in table : KeyCondition(i, kce, eav)}, Get(sif, TRUE))
    IN IF limit = None THEN all
       ELSE SubSeq(all, 1, IF Len(all) < limit[1] THEN Len(all) ELSE limit[1])

\* What one call of query_dynamodb leaves in the log of calls.
QueryCall(table, kce) == [table |-> table, kce |-> kce]

(***************************************************************************)
(* determine_relevant_epochs and prepare_balances_sort_key                 *)
(***************************************************************************)
\* The list start_epochs of lines 66-73, as a set.
start_epochs(epochs, s) ==
    {Str(epochs[i].info.epoch) : i \in {j \in 1..Len(epochs) : StrLess(epochs[j].sk, s)}}

\* The list end_epochs of lines 67-76, as a set.
end_epochs(epochs, s, e) ==
    {Str(epochs[i].info.epoch) :
        i \in {j \in 1..Len(epochs) : StrLess(s, epochs[j].sk) /\ StrLess(epochs[j].sk, e)}}

\* Line 77.
start_epoch(epochs, s) ==
    IF start_epochs(epochs, s) # {} THEN StrMax(start_epochs(epochs, s)) ELSE Str(0)

\* Line 81: None when no marker lies inside the window.
end_epoch(epochs, s, e) ==
    IF end_epochs(epochs, s, e) # {} THEN Some(StrMax(end_epochs(epochs, s, e))) ELSE None

\* prepare_balances_sort_key: the pair (self.sort_start, self.sort_end).
prepare_balances_sort_key(se, ee, s, e) ==
    [sort_start |-> JoinHash(ZeroPad(se), s),
     sort_end |-> IF ee # None THEN JoinHash(ZeroPad(ee[1]), e)
                               ELSE JoinHash(ZeroPad(se), e)]

(***************************************************************************)
(* clean_balances_from_db                                                  *)
(***************************************************************************)
\* One cleaned record (lines 133-143).  r.fees_n_deposits is None when the
\* item has no such attribute, and so are its deposit and init_bal.
clean_one(r) ==
    [balance |-> r.balance,
     sk |-> r.sk,
     update_type |-> r.update_type,
     deposit |-> IF r.fees_n_deposits = None THEN 0
                 ELSE Get(r.fees_n_deposits[1].deposit, 0),
     pre_deposit |-> IF r.fees_n_deposits = None THEN None
                     ELSE r.fees_n_deposits[1].init_bal]

clean_balances_from_db(unprocessed) ==
    [i \in 1..Len(unprocessed) |-> clean_one(unprocessed[i])]

(***************************************************************************)
(* determine_period_cutoffs                                                *)
(***************************************************************************)
\* IsCutoff without the branch of lines 156-157.
IsCutoff_NoLast(bals, i) ==
    \/ i = 1
    \/ bals[i].deposit # 0

\* IsCutoff with line 156 off by one: the snapshot before the last.
IsCutoff_OffByOne(bals, i) ==
    \/ i = 1
    \/ bals[i].deposit # 0
    \/ i = Len(bals) - 1

\* Whether the loop of lines 151-157 appends the snapshot at Python index i - 1.
IsCutoff(bals, i) ==
    \/ i = 1
    \/ bals[i].deposit # 0
    \/ i = Len(bals)

RECURSIVE Cutoffs(_, _)
\* The list periods after the loop has visited the first n snapshots.
Cutoffs(bals, n) ==
    IF n = 0 THEN <<>>
    ELSE IF IsCutoff(bals, n) THEN Append(Cutoffs(bals, n - 1), bals[n])
         ELSE Cutoffs(bals, n - 1)

determine_period_cutoffs(bals) == Cutoffs(bals, Len(bals))

(***************************************************************************)
(* determine_period_percentage_pnls                                        *)
(***************************************************************************)
\* Line 166: end["pre_deposit"] or end["balance"].  None and 0 are falsy.
end_bal(e) ==
    IF e.pre_deposit # None /\ e.pre_deposit[1] # 0 THEN e.pre_deposit[1] ELSE e.balance

\* PnlRecord with the operands of the subtraction of line 167 swapped.
PnlRecord_Swapped(nm, s, e) ==
    [name |-> nm,
     pnl |-> Divide(s.balance - end_bal(e), s.balance),
     timestamp |-> SplitLast(e.sk),
     period_start |-> SplitLast(s.sk),
     epoch |-> SplitFirst(e.sk)]

\* The record lines 167-181 append for the pair (s, e), s["balance"] # 0.
PnlRecord(nm, s, e) ==
    [name |-> nm,
     pnl |-> Divide(end_bal(e) - s.balance, s.balance),
     timestamp |-> SplitLast(e.sk),
     period_start |-> SplitLast(s.sk),
     epoch |-> SplitFirst(e.sk)]

\* Whether line 167 divides by zero for some pair of zip(periods, periods[1:]).
DividesByZero(ps) == \E i \in 1..(Len(ps) - 1) : ps[i].balance = 0

determine_period_percentage_pnls(nm, ps) ==
    [i \in 1..(Len(ps) - 1) |-> PnlRecord(nm, ps[i], ps[i + 1])]

(***************************************************************************)
(* The inputs of a run: the contents of the tables and the arguments of    *)
(* the constructor.                                                        *)
(***************************************************************************)
Instants == 0..MaxTime

\* An item of the Events table: epoch e began at instant t.
Marker(e, t) == [pk |-> "epoch", sk |-> Timestamp(t), info |-> [epoch |-> e]]

RECURSIVE MarkerSets(_)
\* The sets of at most k markers in which a later marker has a greater epoch.
MarkerSets(k) ==
    IF k = 0 THEN {{}}
    ELSE MarkerSets(k - 1) \cup
         {ms \cup {Marker(e, t)} :
             <<ms, e, t>> \in
                 {x \in MarkerSets(k - 1) \X (1..MaxEpoch) \X Instants :
                     /\ Cardinality(x[1]) = k - 1
                     /\ \A m \in x[1] : m.info.epoch < x[2] /\ StrLess(m.sk, Timestamp(x[3]))}}

\* The epoch the ledger is in at instant t: that of the last marker before t.
EpochInForce(markers, t) ==
    LET before == {m \in markers : StrLess(m.sk, Timestamp(t))}
    IN IF before = {} THEN 0
       ELSE (CHOOSE m \in before : \A o \in before : o.info.epoch <= m.info.epoch).info.epoch

\* The composite sort key of a snapshot written at instant t in epoch e.
SortKey(e, t) == JoinHash(ZeroPad(Str(e)), Timestamp(t))

\* The fees_n_deposits attribute of a snapshot that records a cash flow.
Flow(deposit, init_bal) == Some([deposit |-> deposit, init_bal |-> init_bal])

\* What a snapshot can hold: its balance and its fees_n_deposits attribute.
Kinds ==
    { [balance |-> 100, fees_n_deposits |-> None],
      [balance |-> 180, fees_n_deposits |-> None],
      [balance |-> -100, fees_n_deposits |-> None],
      [balance |-> 150, fees_n_deposits |-> Flow(Some(50), Some(100))],
      [balance |-> 50, fees_n_deposits |-> Flow(Some(50), Some(0))],
      [balance |-> 0, fees_n_deposits |-> Flow(Some(-100), Some(100))],
      [balance |-> 50, fees_n_deposits |-> Flow(Some(-50), None)] }

\* Fewer kinds, where the run is explored for its epoch arithmetic.
FewKinds ==
    { [balance |-> 100, fees_n_deposits |-> None],
      [balance |-> 150, fees_n_deposits |-> Flow(Some(50), Some(100))] }

\* A snapshot of the Balances table.
Snapshot(account, e, t, kind, type) ==
    [pk |-> account, sk |-> SortKey(e, t), balance |-> kind.balance,
     update_type |-> type, fees_n_deposits |-> kind.fees_n_deposits]

\* The Balances tables: n <= MaxSnapshots snapshots of the account, written at
\* the instants 1..n in the epoch then in force, the first one the account's
\* initiation or not, beside one snapshot of another account.
BalancesTables(markers, kinds) ==
    { {Snapshot("bevy_fund", EpochInForce(markers, t), t, h[t],
                IF t = 1 /\ init THEN "initiation" ELSE "update") : t \in DOMAIN h}
      \cup {Snapshot("other_fund", 0, 0, [balance |-> 100, fees_n_deposits |-> None],
                     "initiation")} :
        <<h, init>> \in (UNION {[1..n -> kinds] : n \in 0..MaxSnapshots}) \X BOOLEAN }

\* The windows: start < end, or self.start never set (__init__, lines 41-43,
\* assigns name and end only).
Windows ==
    {[start |-> Some(Timestamp(w[1])), end |-> Timestamp(w[2])] :
        w \in {x \in Instants \X Instants : x[1] < x[2]}}
    \cup {[start |-> None, end |-> Timestamp(t)] : t \in {MaxTime}}

InitWith(markerSets, kinds) ==
    /\ EVENTS \in markerSets
    /\ BALANCES_TABLE \in BalancesTables(EVENTS, kinds)
    /\ TMR_TABLE = <<>>
    /\ name = "bevy_fund"
    /\ \E w \in Windows : start = w.start /\ end = w.end
    /\ sort_start = None
    /\ sort_end = None
    /\ balances = <<>>
    /\ periods = <<>>
    /\ pnls = <<>>
    /\ queries = <<>>
    /\ pc = "determine_relevant_epochs"
    /\ error = "none"

\* Runs over every history of balances, with no marker or with one.
Init == InitWith({{}, {Marker(1, 2)}}, Kinds)

\* Runs over every set of markers, with few histories of balances.
InitEpochs == InitWith(MarkerSets(MaxMarkers), FewKinds)

(***************************************************************************)
(* The steps of main(), lines 48-55.                                       *)
(***************************************************************************)
Running(step) == pc = step /\ error = "none"

\* Lines 61-97.  self.start is read at line 72 or line 90: AttributeError
\* when it was never set.
DetermineRelevantEpochs ==
    /\ Running("determine_relevant_epochs")
    /\ LET epochs == query_dynamodb(EVENTS, "#pk = :pk", [pk |-> "epoch"], None, None)
       IN /\ queries' = Append(queries, QueryCall("Events", "#pk = :pk"))
          /\ IF start = None
             THEN /\ error' = "AttributeError"
                  /\ UNCHANGED <<sort_start, sort_end, pc>>
             ELSE LET keys == prepare_balances_sort_key(
                                  start_epoch(epochs, start[1]),
                                  end_epoch(epochs, start[1], end), start[1], end)
                  IN /\ sort_start' = Some(keys.sort_start)
                     /\ sort_end' = Some(keys.sort_end)
                     /\ pc' = "fetch_balances_for_window"
                     /\ UNCHANGED error
    /\ UNCHANGED <<EVENTS, BALANCES_TABLE, TMR_TABLE, name, start, end, balances,
                   periods, pnls>>

\* Lines 102-107.
WindowKce == "#pk = :pk AND #sk BETWEEN :start AND :end"

FetchBalancesForWindow ==
    /\ Running("fetch_balances_for_window")
    /\ LET bals == query_dynamodb(BALANCES_TABLE, WindowKce,
                                  [pk |-> name, start |-> sort_start[1], end |-> sort_end[1]],
                                  None, None)
       IN balances' = clean_balances_from_db(bals)
    /\ queries' = Append(queries, QueryCall("Balances", WindowKce))
    /\ pc' = "fetch_one_balance_before_window"
    /\ UNCHANGED <<EVENTS, BALANCES_TABLE, TMR_TABLE, name, start, end, sort_start,
                   sort_end, periods, pnls, error>>

\* Lines 112-125.
BeforeKce == "#pk = :pk AND #sk < :sk"

\* Lines 113-116: the two early returns.
NeedsNoBaseline(bals) ==
    \/ Len(bals) = 0
    \/ bals[1].update_type = "initiation"

\* Lines 117-125: the balances with the snapshot before the window in front.
WithBaseline(table, nm, bals) ==
    LET first_timestamp == StrMin({bals[i].sk : i \in 1..Len(bals)})
        prev == query_dynamodb(table, BeforeKce, [pk |-> nm, sk |-> first_timestamp],
                               Some(1), Some(FALSE))
    IN clean_balances_from_db(prev) \o bals

FetchOneBalanceBeforeWindow ==
    /\ Running("fetch_one_balance_before_window")
    /\ IF NeedsNoBaseline(balances)
       THEN UNCHANGED <<balances, queries>>
       ELSE /\ balances' = WithBaseline(BALANCES_TABLE, name, balances)
            /\ queries' = Append(queries, QueryCall("Balances", BeforeKce))
    /\ pc' = "determine_period_cutoffs"
    /\ UNCHANGED <<EVENTS, BALANCES_TABLE, TMR_TABLE, name, start, end, sort_start,
                   sort_end, periods, pnls, error>>

\* Lines 149-158.
DeterminePeriodCutoffs ==
    /\ Running("determine_period_cutoffs")
    /\ periods' = determine_period_cutoffs(balances)
    /\ pc' = "determine_period_percentage_pnls"
    /\ UNCHANGED <<EVENTS, BALANCES_TABLE, TMR_TABLE, name, start, end, sort_start,
                   sort_end, balances, pnls, queries, error>>

\* DeterminePeriodPercentagePnls putting each record in the table as the loop
\* computes it.
DeterminePeriodPercentagePnls_SavesInLoop ==
    /\ Running("determine_period_percentage_pnls")
    /\ IF DividesByZero(periods)
       THEN LET k == CHOOSE i \in 1..(Len(periods) - 1) :
                         periods[i].balance = 0 /\ \A j \in 1..(i - 1) : periods[j].balance # 0
            IN /\ TMR_TABLE' = TMR_TABLE \o
                       [i \in 1..(k - 1) |-> PnlRecord(name, periods[i], periods[i + 1])]
               /\ error' = "ZeroDivisionError"
               /\ UNCHANGED <<pnls, pc>>
       ELSE /\ pnls' = determine_period_percentage_pnls(name, periods)
            /\ TMR_TABLE' = TMR_TABLE \o pnls'
            /\ pc' = "save_pnls_to_db"
            /\ UNCHANGED error
    /\ UNCHANGED <<EVENTS, BALANCES_TABLE, name, start, end, sort_start,
                   sort_end, balances, periods, queries>>

\* Lines 163-183.  A zero start balance raises at line 167, before self.pnls
\* is assigned.
DeterminePeriodPercentagePnls ==
    /\ Running("determine_period_percentage_pnls")
    /\ IF DividesByZero(periods)
       THEN /\ error' = "ZeroDivisionError"
            /\ UNCHANGED <<pnls, pc>>
       ELSE /\ pnls' = determine_period_percentage_pnls(name, periods)
            /\ pc' = "save_pnls_to_db"
            /\ UNCHANGED error
    /\ UNCHANGED <<EVENTS, BALANCES_TABLE, TMR_TABLE, name, start, end, sort_start,
                   sort_end, balances, periods, queries>>

\* Lines 188-191: the batch writer puts every record of self.pnls.
SavePnlsToDb ==
    /\ Running("save_pnls_to_db")
    /\ TMR_TABLE' = TMR_TABLE \o pnls
    /\ pc' = "done"
    /\ UNCHANGED <<EVENTS, BALANCES_TABLE, name, start, end, sort_start, sort_end,
                   balances, periods, pnls, queries, error>>

\* table.query (line 211) raises: nothing in the class catches it.
QueryFails ==
    /\ \/ /\ Running("determine_relevant_epochs")
          /\ queries' = Append(queries, QueryCall("Events", "#pk = :pk"))
       \/ /\ Running("fetch_balances_for_window")
          /\ queries' = Append(queries, QueryCall("Balances", WindowKce))
       \/ /\ Running("fetch_one_balance_before_window")
          /\ ~NeedsNoBaseline(balances)
          /\ queries' = Append(queries, QueryCall("Balances", BeforeKce))
    /\ error' = "StoreUnavailable"
    /\ UNCHANGED <<EVENTS, BALANCES_TABLE, TMR_TABLE, name, start, end, sort_start,
                   sort_end, balances, periods, pnls, pc>>

\* The batch write (line 189-191) raises after putting some of the records.
WriteFails ==
    /\ Running("save_pnls_to_db")
    /\ pnls # <<>>
    /\ \E n \in 0..Len(pnls) : TMR_TABLE' = TMR_TABLE \o SubSeq(pnls, 1, n)
    /\ error' = "StoreUnavailable"
    /\ UNCHANGED <<EVENTS, BALANCES_TABLE, name, start, end, sort_start, sort_end,
                   balances, periods, pnls, queries, pc>>

Next ==
    \/ DetermineRelevantEpochs
    \/ FetchBalancesForWindow
    \/ FetchOneBalanceBeforeWindow
    \/ DeterminePeriodCutoffs
    \/ DeterminePeriodPercentagePnls
    \/ SavePnlsToDb
    \/ QueryFails
    \/ WriteFails

Spec == Init /\ [][Next]_vars

SpecEpochs == InitEpochs /\ [][Next]_vars

(***************************************************************************)
(* Properties.                                                             *)
(***************************************************************************)
\* The steps that have run, read off pc.
CutoffsDone == pc \in {"determine_period_percentage_pnls", "save_pnls_to_db", "done"}
PnlsDone == pc \in {"save_pnls_to_db", "done"}

\* The end value of a period as the design states it: the balance before the
\* cash flow whenever one is recorded, the balance otherwise.
end_value(e) == IF e.pre_deposit # None THEN e.pre_deposit[1] ELSE e.balance

\* C1: every return record holds (end_value - start.balance) / start.balance,
\* end_value being end.pre_deposit whenever it is not null, 0 included, so that a
\* deposit recorded at a snapshot is not in the return of the period ending there.
C1_CashFlowExcluded ==
    PnlsDone =>
        \A i \in 1..Len(pnls) :
            pnls[i].pnl = Divide(end_value(periods[i + 1]) - periods[i].balance,
                                 periods[i].balance)

\* The indexes of the snapshots the segmenter's rule keeps.
Kept(bals) == {i \in 1..Len(bals) : i = 1 \/ i = Len(bals) \/ bals[i].deposit # 0}

\* C2: the cut points are exactly the first snapshot, the last snapshot and the
\* snapshots with a non-zero deposit, in their order, each once.
C2_CutoffsAreKeptSnapshots ==
    CutoffsDone =>
        /\ Len(periods) = Cardinality(Kept(balances))
        /\ \A k \in 1..Len(periods) :
               periods[k] = balances[CHOOSE i \in Kept(balances) :
                                         Cardinality({j \in Kept(balances) : j <= i}) = k]

\* A snapshot between the ends was dropped.
C2_Witness ==
    /\ pc = "determine_period_percentage_pnls"
    /\ Len(balances) = 3
    /\ Len(periods) = 2

\* C3: a pair whose start balance is 0 is skipped and the run goes on: every
\* other pair's record is in the table when the run has ended at or after the
\* computation of the returns.
C3_ZeroBasePairSkipped ==
    (pc = "done" \/ error = "ZeroDivisionError") =>
        \A i \in 1..(Len(periods) - 1) :
            periods[i].balance # 0 =>
                \E k \in 1..Len(TMR_TABLE) :
                    TMR_TABLE[k] = PnlRecord(name, periods[i], periods[i + 1])

\* The numerically greatest epoch among the markers before timestamp ts, 0
\* when there is none.
GreatestEpochBefore(markers, ts) ==
    LET before == {m.info.epoch : m \in {x \in markers : StrLess(x.sk, ts)}}
    IN IF before = {} THEN 0 ELSE CHOOSE e \in before : \A o \in before : o <= e

\* C4: sort_end carries the greatest epoch whose marker is strictly before T1
\* (the lower epoch, 0, when no marker is), zero-padded, then "#" and T1.
C4_UpperBoundEpoch ==
    sort_end # None =>
        sort_end[1] = JoinHash(ZeroPad(Str(GreatestEpochBefore(EVENTS, end))), end)

\* C5: the resolved range [sort_start, sort_end] contains the sort key of every
\* snapshot of the account written at an instant of the window [T0, T1] in the
\* epoch then in force.
C5_RangeContainsWindow ==
    sort_start # None =>
        \A b \in BALANCES_TABLE :
            (/\ b.pk = name
             /\ StrLeq(start[1], SplitLast(b.sk))
             /\ StrLeq(SplitLast(b.sk), end))
            => StrLeq(sort_start[1], b.sk) /\ StrLeq(b.sk, sort_end[1])

\* The stored snapshots of the account in the resolved range: what the window
\* query returns.
InWindow ==
    {b \in BALANCES_TABLE :
        b.pk = name /\ StrLeq(sort_start[1], b.sk) /\ StrLeq(b.sk, sort_end[1])}

\* The stored snapshots of the account before sort key k.
StoredBefore(k) == {b \in BALANCES_TABLE : b.pk = name /\ StrLess(b.sk, k)}

Positive(q) == q.num > 0
IsZero(q) == q.num = 0

\* C7 as stated: for every pair with a non-zero start balance, pnl > 0 when
\* end_value > start.balance and pnl = 0 when they are equal.
C7_SignAnyStart ==
    PnlsDone =>
        \A i \in 1..Len(pnls) :
            /\ end_value(periods[i + 1]) > periods[i].balance => Positive(pnls[i].pnl)
            /\ end_value(periods[i + 1]) = periods[i].balance => IsZero(pnls[i].pnl)

\* C7 as amended: pnl > 0 when end_value > start.balance > 0, and pnl = 0 when
\* end_value = start.balance # 0.
C7_SignPositiveStart ==
    PnlsDone =>
        \A i \in 1..Len(pnls) :
            /\ (periods[i].balance > 0 /\ end_value(periods[i + 1]) > periods[i].balance)
                   => Positive(pnls[i].pnl)
            /\ end_value(periods[i + 1]) = periods[i].balance => IsZero(pnls[i].pnl)

\* A gain over a positive balance and a flat period ending at a deposit.
C7_Witness ==
    /\ pc = "save_pnls_to_db"
    /\ \E i \in 1..Len(pnls) :
           periods[i].balance > 0 /\ end_value(periods[i + 1]) > periods[i].balance
    /\ \E i \in 1..Len(pnls) :
           periods[i + 1].deposit # 0 /\ end_value(periods[i + 1]) = periods[i].balance

\* C8: the cut-point rule applied to its own output returns it unchanged.
C8_CutoffsIdempotent ==
    CutoffsDone => determine_period_cutoffs(periods) = periods

\* Three cut points, the middle one a cash flow.
C8_Witness ==
    /\ pc = "determine_period_percentage_pnls"
    /\ Len(periods) = 3
    /\ periods[2].deposit # 0

\* C9: the back-fill step puts in front of a non-empty window that does not
\* start at an initiation the stored snapshot of the account with the greatest
\* sort key below the window's smallest, if there is one, with one query; the
\* sequence stays strictly ascending; otherwise nothing changes and no query
\* is made.
C9_Backfill ==
    [][(pc = "fetch_one_balance_before_window" /\ pc' = "determine_period_cutoffs") =>
          IF balances # <<>> /\ balances[1].update_type # "initiation"
          THEN LET lowest == StrMin({balances[i].sk : i \in 1..Len(balances)})
                   before == StoredBefore(lowest)
               IN /\ queries' = Append(queries, QueryCall("Balances", BeforeKce))
                  /\ IF before = {}
                     THEN balances' = balances
                     ELSE \E b \in before :
                              /\ \A o \in before : StrLeq(o.sk, b.sk)
                              /\ balances' = <<clean_one(b)>> \o balances
                  /\ \A i \in 1..(Len(balances') - 1) :
                         StrLess(balances'[i].sk, balances'[i + 1].sk)
          ELSE balances' = balances /\ queries' = queries]_vars

\* The back-fill has put a snapshot in front, and an older one is stored.
C9_Witness ==
    /\ pc = "determine_period_cutoffs"
    /\ Len(queries) = 3
    /\ Len(balances) >= 2
    /\ StrLess(balances[1].sk, sort_start[1])
    /\ StoredBefore(balances[1].sk) # {}

====
